---- MODULE Spec2Model ----
(***************************************************************************)
(* The retry / backoff / cancellation core of the SnitchDNS API client     *)
(* (internal/client/client.go): doRequestWithContext, executeRequest,      *)
(* calculateBackoff and secureRandomFloat, for one logical call.           *)
(*                                                                         *)
(* Durations are whole nanoseconds, as in time.Duration.  A random draw of *)
(* secureRandomFloat is the fraction k / RandDenom.                        *)
(***************************************************************************)
EXTENDS Integers, Sequences, FiniteSets, TLC

\* ---------------------------------------------------------------- bounds
MaxRetriesBound == 2
RandDenom == 4

\* ------------------------------------------------------- values and errors
NilBytes == "<nil>"
NoCtxErr == "<nil>"
Canceled == "context canceled"
DeadlineExceeded == "context deadline exceeded"

MkErr(msg, status, body, retries, wrapped) ==
  [msg |-> msg, status |-> status, body |-> body, retries |-> retries, wrapped |-> wrapped]

NoErr == MkErr("<nil>", 0, NilBytes, 0, <<>>)

\* ctx.Err() as an error value
CtxError(e) == MkErr(e, 0, NilBytes, 0, <<>>)

IsCtxError(e) == e.msg \in {Canceled, DeadlineExceeded}

\* a failure of the transport that the context did not cause
TransportCause == MkErr("connection refused", 0, NilBytes, 0, <<>>)

MarshalError == MkErr("failed to marshal request body", 0, NilBytes, 0, <<>>)

ExecuteError(cause) == MkErr("failed to execute request", 0, NilBytes, 0, <<cause>>)

ReadBodyError(cause) == MkErr("failed to read response body", 0, NilBytes, 0, <<cause>>)

StatusError_NoBody(status, body) == MkErr("API request failed with status", status, NilBytes, 0, <<>>)

StatusError(status, body) == MkErr("API request failed with status", status, body, 0, <<>>)

RetriesError_CountsAttempts(retries, lastErr) ==
  MkErr("request failed after retries", 0, NilBytes, retries + 1, <<lastErr>>)

RetriesError(retries, lastErr) ==
  MkErr("request failed after retries", 0, NilBytes, retries, <<lastErr>>)

\* ------------------------------------------------------------ input domains
Statuses == {101, 200, 299, 300, 400, 404, 499, 500, 503, 600}
ReadFailStatuses == {200, 404, 503}
Bodies == {"", "{\"id\": 1}"}
BodyInputs == {"nil", "request", "unmarshalable"}
Requests == {<<"GET", "/zones/1", "nil">>,
             <<"POST", "/zones", "request">>,
             <<"POST", "/zones/1/records", "unmarshalable">>}
UserAgents == {"", "terraform-provider-snitchdns/1.0.0"}
WaitConfigs == {<<10000000, 50000000>>, <<2, 5>>, <<4, 6>>, <<6, 4>>}

VARIABLES
  c,          \* the Client configuration
  ctxErr,     \* ctx.Err() of the call's context
  body,       \* the body argument of the call
  jsonData,   \* the serialized body
  pc,         \* position of the call in doRequestWithContext
  attempt,    \* the loop variable
  lastErr,    \* the last recorded transient failure
  wait,       \* the backoff computed for the pending select (0 outside its block)
  resp,       \* what executeRequest returned last
  ret,        \* what doRequestWithContext returned
  attempts,   \* number of executeRequest invocations (requests the server saw)
  nWaits,     \* number of backoff waits entered
  hist,       \* per handled attempt: what it returned and what the loop did with it
  cancelAt,   \* where the call stood when its context was cancelled
  method,     \* the method argument of the call
  path,       \* the path argument of the call
  sent,       \* the requests built by executeRequest, one per invocation
  out,        \* what the caller of doRequestWithContext returned
  rec,        \* a record call (CreateRecord, GetRecord, UpdateRecord) decoding its response
  calls,      \* concurrent calls on the shared client: each goroutine's position and context
  locals      \* concurrent calls: the local variables attempt, lastErr, jsonData per frame

vars == <<c, ctxErr, body, jsonData, pc, attempt, lastErr, wait, resp, ret,
          attempts, nWaits, hist, cancelAt, method, path, sent, out,
          rec, calls, locals>>

\* the variables of the record decoding and of the concurrent calls, which a
\* single call through doRequestWithContext does not touch
otherVars == <<rec, calls, locals>>

NewClient(maxRetries, waitMin, waitMax) ==
  [BaseURL |-> "http://snitchdns", APIKey |-> "test-key",
   UserAgent |-> "terraform-provider-snitchdns/dev",
   MaxRetries |-> maxRetries, RetryWaitMin |-> waitMin, RetryWaitMax |-> waitMax,
   DebugLogging |-> FALSE]

NoResp == [respBody |-> NilBytes, statusCode |-> 0, err |-> NoErr]
NoRet == [data |-> NilBytes, err |-> NoErr]
NoCancel == [pc |-> "none", attempt |-> 0, completed |-> 0]
NilZone == [ID |-> 0]
NoOut == [zone |-> NilZone, err |-> NoErr, returned |-> FALSE]
NoRecordCall == [pc |-> "none"]

Init ==
  /\ \E m \in (-1)..MaxRetriesBound, w \in WaitConfigs, ua \in UserAgents :
       c = [NewClient(m, w[1], w[2]) EXCEPT !.UserAgent = ua]
  /\ body \in BodyInputs
  /\ \E rq \in Requests : method = rq[1] /\ path = rq[2] /\ body = rq[3]
  /\ sent = <<>>
  /\ out = NoOut
  /\ rec = NoRecordCall
  /\ calls = <<>>
  /\ locals = <<>>
  /\ ctxErr \in {NoCtxErr, Canceled, DeadlineExceeded}
  /\ cancelAt = IF ctxErr = NoCtxErr THEN NoCancel
                ELSE [pc |-> "before", attempt |-> 0, completed |-> 0]
  /\ jsonData = NilBytes
  /\ pc = "marshal"
  /\ attempt = 0
  /\ lastErr = NoErr
  /\ wait = 0
  /\ resp = NoResp
  /\ ret = NoRet
  /\ attempts = 0
  /\ nWaits = 0
  /\ hist = <<>>

\* ------------------------------------------------------------ pure helpers
Pow2(n) == IF n <= 0 THEN 1 ELSE 2 ^ n

\* json.Marshal of the body argument
Marshal(b) == IF b = "request" THEN "{\"domain\": \"example.com\"}" ELSE NilBytes

MarshalFails_Ignored(b) == FALSE

MarshalFails(b) == b = "unmarshalable"

\* secureRandomFloat: float64(uint64) / 2^64.  The draws are the fractions
\* k / RandDenom; k = RandDenom is the draw 1.0, which the conversion of a
\* uint64 above 2^64 - 2^10 to float64 produces.
secureRandomFloat == 0..RandDenom

\* calculateBackoff(attempt) for the draw k / RandDenom:
\*   backoff = RetryWaitMin * 2^(attempt-1), capped at RetryWaitMax,
\*   jitter = backoff / 4, backoff - jitter + r * jitter * 2,
\*   converted to time.Duration (truncated to whole nanoseconds).
calculateBackoff_ExponentAttempt(cl, att, k) ==
  LET raw == cl.RetryWaitMin * Pow2(att)
      backoff == IF raw > cl.RetryWaitMax THEN cl.RetryWaitMax ELSE raw
  IN  (4 * backoff * RandDenom - backoff * RandDenom + 2 * k * backoff) \div (4 * RandDenom)

calculateBackoff_WideJitter(cl, att, k) ==
  LET raw == cl.RetryWaitMin * Pow2(att - 1)
      backoff == IF raw > cl.RetryWaitMax THEN cl.RetryWaitMax ELSE raw
  IN  (4 * backoff * RandDenom - 3 * backoff * RandDenom + 6 * k * backoff) \div (4 * RandDenom)

calculateBackoff(cl, att, k) ==
  LET raw == cl.RetryWaitMin * Pow2(att - 1)
      backoff == IF raw > cl.RetryWaitMax THEN cl.RetryWaitMax ELSE raw
  IN  (4 * backoff * RandDenom - backoff * RandDenom + 2 * k * backoff) \div (4 * RandDenom)

LoopCond_OneLess(att, maxRetries) == att < maxRetries

LoopCond_OneMore(att, maxRetries) == att <= maxRetries + 1

\* the loop condition of the retry loop
LoopCond(att, maxRetries) == att <= maxRetries

SelectCases_NoTimer(parked, err) ==
  IF parked THEN (IF err = NoCtxErr THEN {} ELSE {"ctx"})
  ELSE (IF err = NoCtxErr THEN {"park"} ELSE {"ctx"})

SelectCases_SleepOnly(parked, err) ==
  IF parked THEN {"timer"}
  ELSE (IF err = NoCtxErr THEN {"park"} ELSE {"timer", "ctx"})

\* the cases the select of the backoff wait can take.  A goroutine parked in
\* the select is woken by the first event; one that has not parked yet takes
\* any ready case ("park" when the context is not done and the timer is running).
SelectCases(parked, err) ==
  IF parked THEN (IF err = NoCtxErr THEN {"timer"} ELSE {"ctx"})
  ELSE (IF err = NoCtxErr THEN {"park"} ELSE {"timer", "ctx"})

\* what executeRequest can return while the context's error is err
ExecuteResults(err) ==
  LET causes == IF err = NoCtxErr THEN {TransportCause} ELSE {TransportCause, CtxError(err)}
      failed == {[respBody |-> NilBytes, statusCode |-> 0, err |-> ExecuteError(cz)] : cz \in causes}
      partial == {[respBody |-> "", statusCode |-> s, err |-> ReadBodyError(cz)] :
                    s \in ReadFailStatuses, cz \in causes}
      complete == {[respBody |-> b, statusCode |-> s, err |-> NoErr] : s \in Statuses, b \in Bodies}
  IN  IF err = NoCtxErr THEN failed \cup partial \cup complete ELSE failed \cup partial

Classify_RetryEverything(r, err) == "transient"

Classify_EmptyBodyRetried(r, err) ==
  IF r.err # NoErr THEN (IF err # NoCtxErr THEN "cancel" ELSE "transient")
  ELSE IF r.statusCode >= 200 /\ r.statusCode < 300 /\ r.respBody # "" THEN "success"
  ELSE IF r.statusCode >= 400 /\ r.statusCode < 500 /\ r.respBody # "" THEN "terminal"
  ELSE "transient"

Classify_OnlyStatusOK(r, err) ==
  IF r.err # NoErr THEN (IF err # NoCtxErr THEN "cancel" ELSE "transient")
  ELSE IF r.statusCode = 200 THEN "success"
  ELSE IF r.statusCode >= 400 /\ r.statusCode < 500 THEN "terminal"
  ELSE "transient"

Classify_Retry4xx(r, err) ==
  IF r.err # NoErr THEN (IF err # NoCtxErr THEN "cancel" ELSE "transient")
  ELSE IF r.statusCode >= 200 /\ r.statusCode < 300 THEN "success"
  ELSE "transient"

Classify_Only404(r, err) ==
  IF r.err # NoErr THEN (IF err # NoCtxErr THEN "cancel" ELSE "transient")
  ELSE IF r.statusCode >= 200 /\ r.statusCode < 300 THEN "success"
  ELSE IF r.statusCode = 404 THEN "terminal"
  ELSE "transient"

Classify_NoCtxCheck(r, err) ==
  IF r.err # NoErr THEN "transient"
  ELSE IF r.statusCode >= 200 /\ r.statusCode < 300 THEN "success"
  ELSE IF r.statusCode >= 400 /\ r.statusCode < 500 THEN "terminal"
  ELSE "transient"

Classify_ErrorNotRetried(r, err) ==
  IF r.err # NoErr THEN "cancel"
  ELSE IF r.statusCode >= 200 /\ r.statusCode < 300 THEN "success"
  ELSE IF r.statusCode >= 400 /\ r.statusCode < 500 THEN "terminal"
  ELSE "transient"

Classify_OnlyCanceled(r, err) ==
  IF r.err # NoErr THEN (IF err = Canceled THEN "cancel" ELSE "transient")
  ELSE IF r.statusCode >= 200 /\ r.statusCode < 300 THEN "success"
  ELSE IF r.statusCode >= 400 /\ r.statusCode < 500 THEN "terminal"
  ELSE "transient"

Classify_StatusFirst(r, err) ==
  IF r.statusCode >= 200 /\ r.statusCode < 300 THEN "success"
  ELSE IF r.statusCode >= 400 /\ r.statusCode < 500 THEN "terminal"
  ELSE IF r.err # NoErr THEN (IF err # NoCtxErr THEN "cancel" ELSE "transient")
  ELSE "transient"

Classify_5xxTerminal(r, err) ==
  IF r.err # NoErr THEN (IF err # NoCtxErr THEN "cancel" ELSE "transient")
  ELSE IF r.statusCode >= 200 /\ r.statusCode < 300 THEN "success"
  ELSE IF r.statusCode >= 400 THEN "terminal"
  ELSE "transient"

\* what the loop body does with the result of executeRequest
Classify(r, err) ==
  IF r.err # NoErr THEN (IF err # NoCtxErr THEN "cancel" ELSE "transient")
  ELSE IF r.statusCode >= 200 /\ r.statusCode < 300 THEN "success"
  ELSE IF r.statusCode >= 400 /\ r.statusCode < 500 THEN "terminal"
  ELSE "transient"

HeaderUnset == "<unset>"

NewRequest_FixedUserAgent(cl, m, p, data) ==
  [method |-> m, url |-> <<cl.BaseURL, p>>, body |-> data,
   auth |-> cl.APIKey,
   userAgent |-> "terraform-provider-snitchdns/dev",
   contentType |-> IF data # NilBytes THEN "application/json" ELSE HeaderUnset]

NewRequest_NoBody(cl, m, p, data) ==
  [method |-> m, url |-> <<cl.BaseURL, p>>, body |-> NilBytes,
   auth |-> cl.APIKey,
   userAgent |-> IF cl.UserAgent # "" THEN cl.UserAgent ELSE HeaderUnset,
   contentType |-> HeaderUnset]

\* lines 109-125: the request executeRequest builds and its headers
NewRequest(cl, m, p, data) ==
  [method |-> m, url |-> <<cl.BaseURL, p>>, body |-> data,
   auth |-> cl.APIKey,
   userAgent |-> IF cl.UserAgent # "" THEN cl.UserAgent ELSE HeaderUnset,
   contentType |-> IF data # NilBytes THEN "application/json" ELSE HeaderUnset]

CallMode_Async == "call"

\* line 80: executeRequest is called synchronously, the loop waits for its result
CallMode == "exec"

\* json.Unmarshal of a response body into a Zone
UnmarshalFails(b) == b # "{\"id\": 1}"

Unmarshal(b) == [ID |-> 1]

ParseError == MkErr("failed to parse response", 0, NilBytes, 0,
                    <<MkErr("unexpected end of JSON input", 0, NilBytes, 0, <<>>)>>)

\* the failure the loop records for a transient outcome
TransientError(r) ==
  IF r.err # NoErr THEN r.err ELSE StatusError(r.statusCode, r.respBody)

\* what an attempt ended in, as the test servers and the transport produce it:
\* a status class, a failure the context caused, or another transport failure
Served(r) ==
  IF r.err # NoErr THEN (IF IsCtxError(r.err.wrapped[1]) THEN "cancelled" ELSE "error")
  ELSE IF r.statusCode \in 200..299 THEN "2xx"
  ELSE IF r.statusCode \in 400..499 THEN "4xx"
  ELSE "503"

Completed == IF pc = "exec" THEN attempts - 1 ELSE attempts

\* ---------------------------------------------------------------- actions
\* the context of the call is cancelled or its deadline elapses
Cancel ==
  /\ ctxErr = NoCtxErr
  /\ pc # "done"
  /\ ctxErr' \in {Canceled, DeadlineExceeded}
  /\ cancelAt' = [pc |-> pc, attempt |-> attempt, completed |-> Completed]
  /\ UNCHANGED <<otherVars, c, method, path, sent, out, body, jsonData, pc, attempt, lastErr, wait, resp, ret, attempts, nWaits, hist>>

\* lines 56-64: serialize the body once
MarshalBody ==
  /\ pc = "marshal"
  /\ IF MarshalFails(body)
       THEN /\ ret' = [data |-> NilBytes, err |-> MarshalError]
            /\ pc' = "done"
            /\ UNCHANGED jsonData
       ELSE /\ jsonData' = Marshal(body)
            /\ pc' = "loop"
            /\ UNCHANGED ret
  /\ UNCHANGED <<otherVars, c, method, path, sent, out, ctxErr, body, attempt, lastErr, wait, resp, attempts, nWaits, hist, cancelAt>>

\* lines 68, 104: the loop condition fails
RetriesExhausted ==
  /\ pc = "loop"
  /\ ~LoopCond(attempt, c.MaxRetries)
  /\ ret' = [data |-> NilBytes, err |-> RetriesError(c.MaxRetries, lastErr)]
  /\ pc' = "done"
  /\ UNCHANGED <<otherVars, c, method, path, sent, out, ctxErr, body, jsonData, attempt, lastErr, wait, resp, attempts, nWaits, hist, cancelAt>>

BeginBackoff_NoWait ==
  /\ pc = "loop"
  /\ LoopCond(attempt, c.MaxRetries)
  /\ attempt > 0
  /\ nWaits' = nWaits + 1
  /\ pc' = "call"
  /\ UNCHANGED <<otherVars, c, method, path, sent, out, ctxErr, body, jsonData, attempt, lastErr, wait, resp, ret, attempts, hist, cancelAt>>

BeginBackoff_StoresBackoff ==
  /\ pc = "loop"
  /\ LoopCond(attempt, c.MaxRetries)
  /\ attempt > 0
  /\ \E k \in secureRandomFloat : wait' = calculateBackoff(c, attempt, k)
  /\ c' = [c EXCEPT !.RetryWaitMin = wait']
  /\ nWaits' = nWaits + 1
  /\ pc' = "select"
  /\ UNCHANGED <<otherVars, method, path, sent, out, ctxErr, body, jsonData, attempt, lastErr, resp, ret, attempts, hist, cancelAt>>

\* lines 69-73: a retry computes its backoff and enters the select
BeginBackoff ==
  /\ pc = "loop"
  /\ LoopCond(attempt, c.MaxRetries)
  /\ attempt > 0
  /\ \E k \in secureRandomFloat : wait' = calculateBackoff(c, attempt, k)
  /\ nWaits' = nWaits + 1
  /\ pc' = "select"
  /\ UNCHANGED <<otherVars, c, method, path, sent, out, ctxErr, body, jsonData, attempt, lastErr, resp, ret, attempts, hist, cancelAt>>

\* line 73: nothing is ready, the goroutine parks in the select
SelectPark ==
  /\ pc = "select"
  /\ "park" \in SelectCases(FALSE, ctxErr)
  /\ pc' = "parked"
  /\ UNCHANGED <<otherVars, c, method, path, sent, out, ctxErr, body, jsonData, attempt, lastErr, wait, resp, ret, attempts, nWaits, hist, cancelAt>>

\* line 74: the timer case of the select
SelectTimer ==
  /\ pc \in {"select", "parked"}
  /\ "timer" \in SelectCases(pc = "parked", ctxErr)
  /\ pc' = "call"
  /\ wait' = 0
  /\ UNCHANGED <<otherVars, c, method, path, sent, out, ctxErr, body, jsonData, attempt, lastErr, resp, ret, attempts, nWaits, hist, cancelAt>>

\* lines 75-76: the ctx.Done() case of the select
SelectDone ==
  /\ pc \in {"select", "parked"}
  /\ "ctx" \in SelectCases(pc = "parked", ctxErr)
  /\ ret' = [data |-> NilBytes, err |-> CtxError(ctxErr)]
  /\ pc' = "done"
  /\ wait' = 0
  /\ UNCHANGED <<otherVars, c, method, path, sent, out, ctxErr, body, jsonData, attempt, lastErr, resp, attempts, nWaits, hist, cancelAt>>

\* line 80: executeRequest is called
StartExecute ==
  /\ \/ pc = "loop" /\ LoopCond(attempt, c.MaxRetries) /\ attempt = 0
     \/ pc = "call"
  /\ attempts' = attempts + 1
  /\ sent' = Append(sent, NewRequest(c, method, path, jsonData))
  /\ pc' = CallMode
  /\ UNCHANGED <<otherVars, c, method, path, out, ctxErr, body, jsonData, attempt, lastErr, wait, resp, ret, nWaits, hist, cancelAt>>

\* lines 108-147: executeRequest returns
ExecuteReturn ==
  /\ pc = "exec"
  /\ resp' \in ExecuteResults(ctxErr)
  /\ pc' = "check"
  /\ UNCHANGED <<otherVars, c, method, path, sent, out, ctxErr, body, jsonData, attempt, lastErr, wait, ret, attempts, nWaits, hist, cancelAt>>

\* lines 81-101: the loop body handles the result
HandleResult ==
  /\ pc = "check"
  /\ LET did == Classify(resp, ctxErr) IN
       /\ hist' = Append(hist, [got |-> Served(resp), did |-> did])
       /\ CASE did = "cancel" ->
                 /\ ret' = [data |-> NilBytes, err |-> CtxError(ctxErr)]
                 /\ pc' = "done"
                 /\ UNCHANGED <<attempt, lastErr>>
            [] did = "success" ->
                 /\ ret' = [data |-> resp.respBody, err |-> NoErr]
                 /\ pc' = "done"
                 /\ UNCHANGED <<attempt, lastErr>>
            [] did = "terminal" ->
                 /\ ret' = [data |-> NilBytes, err |-> StatusError(resp.statusCode, resp.respBody)]
                 /\ pc' = "done"
                 /\ UNCHANGED <<attempt, lastErr>>
            [] OTHER ->
                 /\ lastErr' = TransientError(resp)
                 /\ attempt' = attempt + 1
                 /\ pc' = "loop"
                 /\ UNCHANGED ret
  /\ UNCHANGED <<otherVars, c, method, path, sent, out, ctxErr, body, jsonData, wait, resp, attempts, nWaits, cancelAt>>

\* lines 236-248: the caller (GetZoneWithContext, CreateZone) passes an error
\* on and decodes the bytes of a success
CallerReturn ==
  /\ pc = "done"
  /\ ~out.returned
  /\ out' = IF ret.err # NoErr THEN [zone |-> NilZone, err |-> ret.err, returned |-> TRUE]
            ELSE IF UnmarshalFails(ret.data)
              THEN [zone |-> NilZone, err |-> ParseError, returned |-> TRUE]
              ELSE [zone |-> Unmarshal(ret.data), err |-> NoErr, returned |-> TRUE]
  /\ UNCHANGED <<otherVars, c, method, path, sent, ctxErr, body, jsonData, pc, attempt, lastErr, wait,
                 resp, ret, attempts, nWaits, hist, cancelAt>>

CallStep ==
  \/ MarshalBody
  \/ RetriesExhausted
  \/ BeginBackoff
  \/ SelectPark
  \/ SelectTimer
  \/ SelectDone
  \/ StartExecute
  \/ ExecuteReturn
  \/ HandleResult
  \/ CallerReturn

Next == CallStep \/ Cancel

Spec == Init /\ [][Next]_vars

\* every step of the call is eventually taken: the goroutine is scheduled,
\* the timer fires and the transport returns (HTTPClient.Timeout)
FairSpec == Spec /\ WF_vars(CallStep)

\* --------------------------------------------------- record responses
\* the variables of the single call of Spec
callVars == <<ctxErr, body, jsonData, pc, attempt, lastErr, wait, resp, ret,
              attempts, nWaits, hist, cancelAt, method, path, sent, out>>

\* no call through Spec is in progress
CallIdle ==
  /\ ctxErr = NoCtxErr /\ body = "nil" /\ jsonData = NilBytes /\ pc = "idle"
  /\ attempt = 0 /\ lastErr = NoErr /\ wait = 0 /\ resp = NoResp /\ ret = NoRet
  /\ attempts = 0 /\ nWaits = 0 /\ hist = <<>> /\ cancelAt = NoCancel
  /\ method = "GET" /\ path = "/zones/1" /\ sent = <<>> /\ out = NoOut

\* line 18
emptyJSON == "{}"

\* the strings a nested field of a record response can hold
RawStrings == {"", emptyJSON, "{\"address\": \"1.2.3.4\"}", "null", "[1]", "{bad"}

\* a field of the outer JSON object: absent, null, a number, or a string
FieldValues ==
  {[kind |-> k, s |-> ""] : k \in {"absent", "null", "number"}}
    \cup {[kind |-> "string", s |-> x] : x \in RawStrings}

\* the bytes doRequest can return to a record call: not JSON at all, or an
\* object with its "data" and "conditional_data" fields
RecordBodies ==
  {[valid |-> FALSE, data |-> [kind |-> "absent", s |-> ""], cond |-> [kind |-> "absent", s |-> ""]]}
    \cup {[valid |-> TRUE, data |-> d, cond |-> cd] : d \in FieldValues, cd \in FieldValues}

RecordCalls == {"CreateRecord", "GetRecord", "UpdateRecord"}

\* a map[string]interface{}: nil, or allocated with its entries
NilMap == [isNil |-> TRUE, entries |-> {}]
MapOf(entries) == [isNil |-> FALSE, entries |-> entries]

NilRecord == [isNil |-> TRUE, DataRaw |-> "", ConditionalDataRaw |-> "",
              Data |-> NilMap, ConditionalData |-> NilMap]

\* json.Unmarshal(respBody, &record) fails on bytes that are not JSON and on a
\* non-string value for a string field
OuterFails(b) == ~b.valid \/ b.data.kind = "number" \/ b.cond.kind = "number"

\* the string field after the outer decode: an absent or null field leaves ""
RawOf(f) == IF f.kind = "string" THEN f.s ELSE ""

\* json.Unmarshal([]byte(raw), &m) for m a nil map[string]interface{}
InnerFails(raw) == raw \in {"", "[1]", "{bad"}

InnerDecode(raw) ==
  IF raw = "null" THEN NilMap
  ELSE IF raw = emptyJSON THEN MapOf({})
  ELSE MapOf({<<"address", "1.2.3.4">>})

\* lines 332, 361, 390: the data field is decoded in the second pass
ParsesData(raw) == raw # ""

\* lines 339, 368, 397: the conditional_data field is decoded in the second pass
ParsesConditionalData(raw) == raw # "" /\ raw # emptyJSON

FieldError(field) == MkErr(field, 0, NilBytes, 0, <<MkErr("invalid JSON", 0, NilBytes, 0, <<>>)>>)

\* lines 326-345 (349-375, 378-404): what a record call returns for the bytes
\* b, and the decode passes it ran
DecodeRecord(b) ==
  LET raw == RawOf(b.data)
      craw == RawOf(b.cond)
  IN  IF OuterFails(b)
        THEN [record |-> NilRecord, err |-> FieldError("failed to parse response"),
              passes |-> <<"outer">>]
      ELSE IF ParsesData(raw) /\ InnerFails(raw)
        THEN [record |-> NilRecord, err |-> FieldError("failed to parse data field"),
              passes |-> <<"outer", "data">>]
      ELSE IF ParsesConditionalData(craw) /\ InnerFails(craw)
        THEN [record |-> NilRecord, err |-> FieldError("failed to parse conditional_data field"),
              passes |-> <<"outer">> \o (IF ParsesData(raw) THEN <<"data">> ELSE <<>>)
                          \o <<"conditional_data">>]
      ELSE [record |-> [isNil |-> FALSE, DataRaw |-> raw, ConditionalDataRaw |-> craw,
                        Data |-> IF ParsesData(raw) THEN InnerDecode(raw) ELSE NilMap,
                        ConditionalData |-> IF ParsesConditionalData(craw)
                                             THEN InnerDecode(craw) ELSE NilMap],
            err |-> NoErr,
            passes |-> <<"outer">> \o (IF ParsesData(raw) THEN <<"data">> ELSE <<>>)
                        \o (IF ParsesConditionalData(craw) THEN <<"conditional_data">> ELSE <<>>)]

RecordInit ==
  /\ c = NewClient(MaxRetriesBound, 10000000, 50000000)
  /\ CallIdle
  /\ calls = <<>>
  /\ locals = <<>>
  /\ \E call \in RecordCalls, b \in RecordBodies, e \in {NoErr, StatusError(404, "")} :
       rec = [pc |-> "doRequest", call |-> call,
              respBody |-> IF e = NoErr THEN b ELSE NilBytes, reqErr |-> e,
              record |-> NilRecord, err |-> NoErr, passes |-> <<>>]

\* lines 321-345: doRequest has returned; the call passes its error on or
\* decodes the response
RecordReturn ==
  /\ rec.pc = "doRequest"
  /\ rec' = IF rec.reqErr # NoErr
              THEN [rec EXCEPT !.pc = "returned", !.err = rec.reqErr]
              ELSE LET d == DecodeRecord(rec.respBody)
                   IN  [rec EXCEPT !.pc = "returned", !.record = d.record,
                                   !.err = d.err, !.passes = d.passes]
  /\ UNCHANGED <<c, callVars, calls, locals>>

RecordNext == RecordReturn

RecordSpec == RecordInit /\ [][RecordNext]_vars

\* ------------------------------------- concurrent calls on one shared client
CallIds == {1, 2}

\* the MaxRetries values of the shared client
ConcRetries == (-1)..MaxRetriesBound

\* what executeRequest returns to the concurrent calls: a transport failure,
\* or a 200, 404 or 503 with a body
ConcResults(err) ==
  {r \in ExecuteResults(err) : r.statusCode \in {0, 200, 404, 503} /\ r.respBody # ""}

Frame_OnClient(id) == 1

\* lines 56, 67, 68: jsonData, lastErr and attempt are local variables of
\* doRequestWithContext, so every invocation has its own frame
Frame(id) == id

NoLocals == [jsonData |-> NilBytes, attempt |-> 0, lastErr |-> NoErr]

ConcInit ==
  /\ \E m \in ConcRetries : c = NewClient(m, 2, 5)
  /\ CallIdle
  /\ rec = NoRecordCall
  /\ locals = [id \in CallIds |-> NoLocals]
  /\ \E bs \in [CallIds -> {"request", "unmarshalable"}], es \in [CallIds -> {NoCtxErr, Canceled}] :
       calls = [id \in CallIds |->
                  [pc |-> "marshal", body |-> bs[id], ctxErr |-> es[id], wait |-> 0,
                   resp |-> NoResp, ret |-> NoRet, seen |-> <<>>]]

\* the context of call id is cancelled
ConcCancel(id) ==
  /\ calls[id].ctxErr = NoCtxErr
  /\ calls[id].pc # "done"
  /\ calls' = [calls EXCEPT ![id].ctxErr = Canceled]
  /\ UNCHANGED <<c, callVars, rec, locals>>

\* lines 56-64
ConcMarshalBody(id) ==
  /\ calls[id].pc = "marshal"
  /\ IF MarshalFails(calls[id].body)
       THEN /\ calls' = [calls EXCEPT ![id].pc = "done",
                                      ![id].ret = [data |-> NilBytes, err |-> MarshalError]]
            /\ UNCHANGED locals
       ELSE /\ locals' = [locals EXCEPT ![Frame(id)].jsonData = Marshal(calls[id].body)]
            /\ calls' = [calls EXCEPT ![id].pc = "loop"]
  /\ UNCHANGED <<c, callVars, rec>>

\* lines 68, 104
ConcRetriesExhausted(id) ==
  /\ calls[id].pc = "loop"
  /\ ~LoopCond(locals[Frame(id)].attempt, c.MaxRetries)
  /\ calls' = [calls EXCEPT ![id].pc = "done",
                            ![id].ret = [data |-> NilBytes,
                                         err |-> RetriesError(c.MaxRetries, locals[Frame(id)].lastErr)]]
  /\ UNCHANGED <<c, callVars, rec, locals>>

\* lines 69-73
ConcBeginBackoff(id) ==
  /\ calls[id].pc = "loop"
  /\ LoopCond(locals[Frame(id)].attempt, c.MaxRetries)
  /\ locals[Frame(id)].attempt > 0
  /\ \E k \in secureRandomFloat :
       calls' = [calls EXCEPT ![id].pc = "select",
                              ![id].wait = calculateBackoff(c, locals[Frame(id)].attempt, k)]
  /\ UNCHANGED <<c, callVars, rec, locals>>

\* line 73
ConcSelectPark(id) ==
  /\ calls[id].pc = "select"
  /\ "park" \in SelectCases(FALSE, calls[id].ctxErr)
  /\ calls' = [calls EXCEPT ![id].pc = "parked"]
  /\ UNCHANGED <<c, callVars, rec, locals>>

\* line 74
ConcSelectTimer(id) ==
  /\ calls[id].pc \in {"select", "parked"}
  /\ "timer" \in SelectCases(calls[id].pc = "parked", calls[id].ctxErr)
  /\ calls' = [calls EXCEPT ![id].pc = "call", ![id].wait = 0]
  /\ UNCHANGED <<c, callVars, rec, locals>>

\* lines 75-76
ConcSelectDone(id) ==
  /\ calls[id].pc \in {"select", "parked"}
  /\ "ctx" \in SelectCases(calls[id].pc = "parked", calls[id].ctxErr)
  /\ calls' = [calls EXCEPT ![id].pc = "done", ![id].wait = 0,
                            ![id].ret = [data |-> NilBytes, err |-> CtxError(calls[id].ctxErr)]]
  /\ UNCHANGED <<c, callVars, rec, locals>>

\* line 80 and lines 108-147: executeRequest is called and returns
ConcExecute(id) ==
  /\ \/ /\ calls[id].pc = "loop"
        /\ LoopCond(locals[Frame(id)].attempt, c.MaxRetries)
        /\ locals[Frame(id)].attempt = 0
     \/ calls[id].pc = "call"
  /\ \E r \in ConcResults(calls[id].ctxErr) :
       calls' = [calls EXCEPT ![id].pc = "check", ![id].resp = r]
  /\ UNCHANGED <<c, callVars, rec, locals>>

\* lines 81-101
ConcHandleResult(id) ==
  /\ calls[id].pc = "check"
  /\ LET k == calls[id]
         did == Classify(k.resp, k.ctxErr)
         seen == Append(k.seen, [r |-> k.resp, ctx |-> k.ctxErr])
     IN  CASE did = "cancel" ->
                /\ calls' = [calls EXCEPT ![id].pc = "done", ![id].seen = seen,
                                          ![id].ret = [data |-> NilBytes, err |-> CtxError(k.ctxErr)]]
                /\ UNCHANGED locals
           [] did = "success" ->
                /\ calls' = [calls EXCEPT ![id].pc = "done", ![id].seen = seen,
                                          ![id].ret = [data |-> k.resp.respBody, err |-> NoErr]]
                /\ UNCHANGED locals
           [] did = "terminal" ->
                /\ calls' = [calls EXCEPT ![id].pc = "done", ![id].seen = seen,
                                          ![id].ret = [data |-> NilBytes,
                                                       err |-> StatusError(k.resp.statusCode, k.resp.respBody)]]
                /\ UNCHANGED locals
           [] OTHER ->
                /\ locals' = [locals EXCEPT ![Frame(id)].lastErr = TransientError(k.resp),
                                            ![Frame(id)].attempt = @ + 1]
                /\ calls' = [calls EXCEPT ![id].pc = "loop", ![id].seen = seen]
  /\ UNCHANGED <<c, callVars, rec>>

ConcNext ==
  \E id \in CallIds :
    \/ ConcCancel(id)
    \/ ConcMarshalBody(id)
    \/ ConcRetriesExhausted(id)
    \/ ConcBeginBackoff(id)
    \/ ConcSelectPark(id)
    \/ ConcSelectTimer(id)
    \/ ConcSelectDone(id)
    \/ ConcExecute(id)
    \/ ConcHandleResult(id)

ConcSpec == ConcInit /\ [][ConcNext]_vars

\* ------------------------------------------------------------------ claims
IsRetriesError(e) == e.msg = "request failed after retries"

Min(a, b) == IF a < b THEN a ELSE b

\* the base B of the claimed backoff range for attempt index i
ClaimedBase(i) == Min(c.RetryWaitMin * (2 ^ (i - 1)), c.RetryWaitMax)

\* C1: with a context that is never cancelled, if the first k < MaxRetries
\* attempts return a 503-equivalent and attempt k+1 returns a 2xx, the call
\* has returned that attempt's bytes with no error after exactly k+1 attempts.
C1_RetryThenSuccess ==
  \A k \in 0..MaxRetriesBound :
    (/\ ctxErr = NoCtxErr
     /\ k < c.MaxRetries
     /\ Len(hist) > k
     /\ \A i \in 1..k : hist[i].got = "503"
     /\ hist[k + 1].got = "2xx")
    => /\ pc = "done"
       /\ attempts = k + 1
       /\ Len(hist) = k + 1
       /\ resp.statusCode \in 200..299
       /\ ret = [data |-> resp.respBody, err |-> NoErr]

C1_Witness ==
  /\ pc = "done" /\ ctxErr = NoCtxErr /\ c.MaxRetries = 2
  /\ Len(hist) = 2 /\ hist[1].got = "503" /\ hist[2].got = "2xx"
  /\ attempts = 2 /\ ret.err = NoErr /\ ret.data = "{\"id\": 1}"

\* C2: with a context that is never cancelled, a call that entered the retry
\* loop and whose every attempt returned a 503-equivalent has, once returned,
\* made exactly MaxRetries + 1 attempts and failed with the retry-exhausted error.
C2_RetryExhausted ==
  (/\ pc = "done"
   /\ ctxErr = NoCtxErr
   /\ ~MarshalFails(body)
   /\ \A i \in 1..Len(hist) : hist[i].got = "503")
  => /\ attempts = c.MaxRetries + 1
     /\ Len(hist) = attempts
     /\ ret.data = NilBytes
     /\ IsRetriesError(ret.err)

C2_Witness ==
  /\ pc = "done" /\ ctxErr = NoCtxErr /\ c.MaxRetries = 2
  /\ Len(hist) = 3 /\ \A i \in 1..3 : hist[i].got = "503"
  /\ attempts = 3 /\ IsRetriesError(ret.err)

\* C3: for every MaxRetries >= 0, a call whose first attempt returns a status
\* in [400,500) has made exactly 1 attempt and no backoff wait, and has
\* returned the terminal error of that response.
C3_NoRetryOn4xx ==
  (c.MaxRetries >= 0 /\ Len(hist) >= 1 /\ hist[1].got = "4xx")
  => /\ pc = "done"
     /\ attempts = 1
     /\ Len(hist) = 1
     /\ nWaits = 0
     /\ resp.statusCode \in 400..499
     /\ ret = [data |-> NilBytes, err |-> StatusError(resp.statusCode, resp.respBody)]

C3_Witness ==
  /\ pc = "done" /\ c.MaxRetries = 2 /\ Len(hist) = 1 /\ hist[1].got = "4xx"
  /\ ret.err = StatusError(404, "") /\ attempts = 1 /\ nWaits = 0

\* C4: if the context is cancelled (its deadline elapses) before any attempt
\* has completed, then for MaxRetries > 0 no retry attempt follows and the
\* call, once returned, has failed with the context's error, not the
\* retry-exhausted error.
C4_CancelBeforeFirstCompletion ==
  (/\ cancelAt.pc # "none"
   /\ cancelAt.completed = 0
   /\ c.MaxRetries > 0
   /\ ~MarshalFails(body))
  => /\ attempts <= 1
     /\ nWaits = 0
     /\ pc = "done" => /\ ret = [data |-> NilBytes, err |-> CtxError(ctxErr)]
                       /\ ~IsRetriesError(ret.err)

C4_Witness ==
  /\ pc = "done" /\ c.MaxRetries = 2
  /\ cancelAt.pc = "exec" /\ cancelAt.completed = 0
  /\ ctxErr = DeadlineExceeded /\ attempts = 1
  /\ ret.err = CtxError(DeadlineExceeded)

\* C5: no attempt is started after an attempt of the call ended in a terminal
\* failure (status in [400,500)) or in a cancellation, at whatever index: such
\* an attempt is the last one and the call has returned.
C5_NoAttemptAfterTerminalOrCancel ==
  \A i \in 1..Len(hist) :
    hist[i].got \in {"4xx", "cancelled"}
    => /\ i = Len(hist)
       /\ attempts = i
       /\ pc = "done"

C5_Witness ==
  /\ pc = "done" /\ c.MaxRetries = 2 /\ Len(hist) = 2
  /\ hist[1].got = "503" /\ hist[2].got = "cancelled" /\ attempts = 2

\* C6 as stated: whenever attempt i < MaxRetries ends in a transient failure,
\* attempt i+1 is started; in a call that has returned, every such failure
\* was followed by the next attempt.
C6_AlwaysRetriesTransient ==
  \A i \in 0..MaxRetriesBound :
    (/\ pc = "done"
     /\ i < c.MaxRetries
     /\ Len(hist) > i
     /\ hist[i + 1].got \in {"503", "error"})
    => attempts >= i + 2

\* C6 as amended: whenever attempt i < MaxRetries ends in a transient failure,
\* eventually attempt i+1 is started or the call returns the context's error.
\* The attempt that just ended is attempt Len(hist) - 1, and the next one has
\* started exactly when attempts exceeds the number of finished attempts.
C6_RetriesUnlessCancelled ==
  (/\ Len(hist) >= 1
   /\ Len(hist) - 1 < c.MaxRetries
   /\ attempts = Len(hist)
   /\ hist[Len(hist)].got \in {"503", "error"})
  ~> (\/ attempts = Len(hist) + 1
      \/ /\ pc = "done"
         /\ ctxErr # NoCtxErr
         /\ ret = [data |-> NilBytes, err |-> CtxError(ctxErr)])

C6_Witness ==
  /\ c.MaxRetries = 2 /\ Len(hist) = 2 /\ attempts = 3 /\ pc = "exec"
  /\ hist[1].got = "error" /\ hist[2].got = "503" /\ ctxErr = NoCtxErr

\* C7: one call never invokes executeRequest more than MaxRetries + 1 times,
\* whatever the attempts return and whenever the context is cancelled.
C7_AttemptBudget == attempts <= c.MaxRetries + 1

C7_Witness ==
  /\ c.MaxRetries = 2 /\ attempts = 3 /\ pc = "done" /\ Len(hist) = 3

\* C8: if the context is cancelled while the call is parked in the backoff
\* wait before attempt i, the call does nothing but return the context's
\* error: attempt i is never started and the error is not retry-exhausted.
C8_CancelDuringBackoff ==
  cancelAt.pc = "parked"
  => /\ pc \in {"parked", "done"}
     /\ attempts = cancelAt.attempt
     /\ Len(hist) = cancelAt.attempt
     /\ pc = "done" => /\ ret = [data |-> NilBytes, err |-> CtxError(ctxErr)]
                       /\ ~IsRetriesError(ret.err)

C8_Witness ==
  /\ pc = "done" /\ cancelAt.pc = "parked" /\ cancelAt.attempt = 2
  /\ c.MaxRetries = 2 /\ attempts = 2 /\ ret.err = CtxError(Canceled)

\* C9 as stated: the wait computed for attempt index i >= 1 lies in
\* [0.75 * B, 1.25 * B] with B = min(RetryWaitMin * 2^(i-1), RetryWaitMax).
C9_BackoffRange ==
  pc \in {"select", "parked"}
  => /\ 3 * ClaimedBase(attempt) <= 4 * wait
     /\ 4 * wait <= 5 * ClaimedBase(attempt)

\* C9 as amended: the wait is a whole number of nanoseconds, truncated, so
\* 0.75 * B - 1 < wait <= 1.25 * B; the lower bound 0.75 * B holds when B is
\* a multiple of 4 ns; for i = 1 the base is min(RetryWaitMin, RetryWaitMax).
C9_BackoffRangeTruncated ==
  pc \in {"select", "parked"}
  => /\ attempt >= 1
     /\ 3 * ClaimedBase(attempt) - 4 < 4 * wait
     /\ 4 * wait <= 5 * ClaimedBase(attempt)
     /\ ClaimedBase(attempt) % 4 = 0 => 3 * ClaimedBase(attempt) <= 4 * wait
     /\ attempt = 1 => ClaimedBase(attempt) = Min(c.RetryWaitMin, c.RetryWaitMax)

C9_Witness ==
  /\ pc = "select" /\ attempt = 1 /\ c.RetryWaitMin = 2 /\ c.RetryWaitMax = 5
  /\ wait = 1

\* C10: an attempt whose transport completed and whose body was read is
\* decided by its status code alone: [200,300) returns the bytes, [400,500)
\* returns the terminal error, every other status is recorded as the last
\* transient failure and retried while attempts remain.
C10_ClassifyByStatus ==
  (Len(hist) = attempts /\ attempts > 0 /\ resp.err = NoErr)
  => LET s == resp.statusCode IN
     /\ s \in 200..299 =>
          /\ pc = "done"
          /\ ret = [data |-> resp.respBody, err |-> NoErr]
     /\ s \in 400..499 =>
          /\ pc = "done"
          /\ ret = [data |-> NilBytes, err |-> StatusError(s, resp.respBody)]
     /\ s \notin (200..299 \cup 400..499) =>
          /\ lastErr = StatusError(s, resp.respBody)
          /\ attempt = attempts
          /\ ret.data = NilBytes
          /\ pc = "done" =>
               \/ ret.err = RetriesError(c.MaxRetries, lastErr) /\ attempts = c.MaxRetries + 1
               \/ ret.err = CtxError(ctxErr) /\ ctxErr # NoCtxErr /\ cancelAt.pc # "none"

C10_Witness ==
  /\ pc = "select" /\ Len(hist) = 1 /\ attempts = 1 /\ attempt = 1
  /\ resp.err = NoErr /\ resp.statusCode = 600
  /\ lastErr = StatusError(600, resp.respBody) /\ ctxErr # NoCtxErr

\* C11: an attempt that fails at transport level because the context was
\* cancelled or its deadline elapsed is a cancellation: it is the last
\* attempt, its failure is not recorded as the last error, and the call has
\* returned the context's error, not the retry-exhausted error.
C11_CtxFailureIsCancellation ==
  \A i \in 1..Len(hist) :
    hist[i].got = "cancelled"
    => /\ i = Len(hist)
       /\ attempts = i
       /\ pc = "done"
       /\ ctxErr # NoCtxErr
       /\ lastErr # resp.err
       /\ ret = [data |-> NilBytes, err |-> CtxError(ctxErr)]
       /\ ~IsRetriesError(ret.err)

C11_Witness ==
  /\ pc = "done" /\ c.MaxRetries = 2 /\ Len(hist) = 2 /\ attempts = 2
  /\ hist[2].got = "cancelled" /\ ctxErr = DeadlineExceeded
  /\ resp.err = ExecuteError(CtxError(DeadlineExceeded))
  /\ lastErr = StatusError(503, "") /\ ret.err = CtxError(DeadlineExceeded)

\* C12 as stated: every transport-level failure the context did not cause is
\* handled as a transient failure and recorded, with its cause, as the last
\* error, however a cancel event of the context interleaves with it.
C12_NonCtxFailureIsTransient ==
  \A i \in 1..Len(hist) :
    hist[i].got = "error"
    => /\ hist[i].did = "transient"
       /\ (i = Len(hist) /\ attempts = i) => lastErr = resp.err

\* C13: an attempt whose body read failed is never a success nor a terminal
\* failure, whatever status its headers carried; while the context is not
\* cancelled it is recorded as the last error and the loop goes on until
\* the attempts are used up.
C13_PartialReadIsTransient ==
  (/\ Len(hist) = attempts
   /\ attempts > 0
   /\ resp.err.msg = "failed to read response body")
  => /\ ret.data = NilBytes
     /\ pc = "done" => /\ ret.err # NoErr
                       /\ ret.err.msg # "API request failed with status"
     /\ ctxErr = NoCtxErr =>
          /\ lastErr = resp.err
          /\ attempt = attempts
          /\ pc = "done" => /\ IsRetriesError(ret.err)
                            /\ attempts = c.MaxRetries + 1

C13_Witness ==
  /\ pc = "parked" /\ ctxErr = NoCtxErr /\ Len(hist) = 1 /\ attempts = 1
  /\ resp.statusCode = 200 /\ resp.err = ReadBodyError(TransportCause)
  /\ lastErr = resp.err /\ attempt = 1

\* C14 as stated: whenever the call returns the retry-exhausted error, that
\* error wraps the transient failure of the last attempt made, the attempt
\* with index MaxRetries.
C14_ExhaustedWrapsLastFailure ==
  (pc = "done" /\ IsRetriesError(ret.err))
  => /\ attempts = c.MaxRetries + 1
     /\ attempts >= 1
     /\ Len(hist) = attempts
     /\ hist[attempts].got \in {"503", "error"}
     /\ ret.err.wrapped = <<TransientError(resp)>>

\* the outcome kinds of a returned call
IsSuccess(r) == r.err = NoErr
IsTerminal(r) == r.err.msg = "API request failed with status"
IsExhausted(r) == r.err.msg = "request failed after retries"
IsCancelled(r) == r.err.msg \in {Canceled, DeadlineExceeded}
IsMarshalFailure(r) == r.err.msg = "failed to marshal request body"

\* C15 as stated: the number carried by the retry-exhausted error equals the
\* number of attempts the call performed.
C15_NumberIsAttempts ==
  (pc = "done" /\ IsExhausted(ret)) => ret.err.retries = attempts

\* C15 as amended: the number carried by the retry-exhausted error is the
\* configured MaxRetries, the number of retries, one less than the number of
\* attempts the call performed.
C15_NumberIsRetries ==
  (pc = "done" /\ IsExhausted(ret))
  => /\ ret.err.retries = c.MaxRetries
     /\ ret.err.retries = attempts - 1

C15_Witness ==
  /\ pc = "done" /\ IsExhausted(ret) /\ c.MaxRetries = 2
  /\ attempts = 3 /\ ret.err.retries = 2

\* C16 as stated: every finished call has exactly one of the outcomes
\* success, terminal, retry-exhausted, cancelled, and a terminal error carries
\* the status and the raw body of the attempt that produced it.
C16_FourOutcomes ==
  pc = "done"
  => /\ Cardinality({k \in {"success", "terminal", "exhausted", "cancelled"} :
                       \/ k = "success" /\ IsSuccess(ret)
                       \/ k = "terminal" /\ IsTerminal(ret)
                       \/ k = "exhausted" /\ IsExhausted(ret)
                       \/ k = "cancelled" /\ IsCancelled(ret)}) = 1
     /\ IsTerminal(ret) => /\ ret.err.status = resp.statusCode
                           /\ ret.err.body = resp.respBody

\* C16 as amended: every finished call has exactly one of the outcomes
\* success, terminal, retry-exhausted, cancelled or marshal failure; the
\* outcome is terminal exactly when the last attempt returned a status in
\* [400,500), and the terminal error carries that status and that raw body.
C16_FiveOutcomes ==
  pc = "done"
  => /\ Cardinality({k \in {"success", "terminal", "exhausted", "cancelled", "marshal"} :
                       \/ k = "success" /\ IsSuccess(ret)
                       \/ k = "terminal" /\ IsTerminal(ret)
                       \/ k = "exhausted" /\ IsExhausted(ret)
                       \/ k = "cancelled" /\ IsCancelled(ret)
                       \/ k = "marshal" /\ IsMarshalFailure(ret)}) = 1
     /\ IsMarshalFailure(ret) <=> body = "unmarshalable"
     /\ IsTerminal(ret) <=> (Len(hist) > 0 /\ hist[Len(hist)].got = "4xx")
     /\ IsTerminal(ret) => /\ ret.data = NilBytes
                           /\ ret.err.status \in 400..499
                           /\ ret.err.status = resp.statusCode
                           /\ ret.err.body = resp.respBody
                           /\ ret.err.wrapped = <<>>

C16_Witness ==
  /\ pc = "done" /\ IsTerminal(ret) /\ Len(hist) = 2 /\ c.MaxRetries = 2
  /\ hist[1].got = "503" /\ hist[2].got = "4xx"
  /\ ret.err.status = 404 /\ ret.err.body = "{\"id\": 1}" /\ ctxErr # NoCtxErr

\* C17: every attempt sends the configured API key in the authentication
\* header, and with a non-empty configured UserAgent the User-Agent header of
\* every attempt is that value verbatim; one request is sent per attempt.
C17_HeadersFromConfig ==
  /\ Len(sent) = attempts
  /\ \A i \in 1..Len(sent) :
       /\ sent[i].auth = c.APIKey
       /\ c.UserAgent # "" => sent[i].userAgent = c.UserAgent

C17_Witness ==
  /\ pc = "done" /\ IsSuccess(ret) /\ Len(sent) = 2
  /\ c.UserAgent = "terraform-provider-snitchdns/1.0.0"
  /\ sent[1].userAgent = "terraform-provider-snitchdns/1.0.0"
  /\ sent[2].userAgent = "terraform-provider-snitchdns/1.0.0"
  /\ sent[2].auth = "test-key"

\* C18: the body is serialized once, before the first attempt, and every
\* attempt of the call sends the same method, path and body bytes, whatever
\* failures and backoff waits lie between the attempts.
C18_SameRequestEveryAttempt ==
  /\ pc # "marshal" /\ ~MarshalFails(body) => jsonData = Marshal(body)
  /\ \A i \in 1..Len(sent) :
       /\ sent[i] = sent[1]
       /\ sent[i].method = method
       /\ sent[i].url = <<c.BaseURL, path>>
       /\ sent[i].body = Marshal(body)

C18_Witness ==
  /\ body = "request" /\ method = "POST" /\ Len(sent) = 3 /\ nWaits = 2
  /\ hist[1].got = "error" /\ hist[2].got = "503"
  /\ sent[3].body = Marshal("request") /\ sent[3].body # NilBytes
  /\ sent[3] = sent[1]

\* C19: a payload encoding failure is never retried.  A body that cannot be
\* serialized makes the call return the marshal error with no request sent,
\* no attempt made and no backoff wait entered; a 2xx response that cannot be
\* decoded makes the caller return the parse error and a nil zone, and once
\* the caller has returned no further attempt is made.
C19_EncodingFailureNotRetried ==
  /\ (body = "unmarshalable" /\ pc # "marshal")
     => /\ pc = "done"
        /\ ret = [data |-> NilBytes, err |-> MarshalError]
        /\ attempts = 0 /\ nWaits = 0 /\ sent = <<>> /\ hist = <<>>
  /\ out.returned => (pc = "done" /\ attempts = Len(hist))
  /\ (out.returned /\ ret.err = NoErr /\ ret.data # "{\"id\": 1}")
     => (out.err = ParseError /\ out.zone = NilZone)
  /\ (out.returned /\ out.err = ParseError)
     => /\ ret.err = NoErr
        /\ Len(hist) >= 1
        /\ hist[Len(hist)].got = "2xx"
        /\ attempts = Len(hist)
        /\ \A i \in 1..(Len(hist) - 1) : hist[i].got # "2xx"

\* the undecodable 2xx response arrives while retries remain, none is used
C19_Witness ==
  /\ out.returned /\ out.err = ParseError /\ out.zone = NilZone
  /\ c.MaxRetries = 2 /\ attempts = 1 /\ nWaits = 0
  /\ resp.statusCode = 200 /\ resp.respBody = ""

\* at most one attempt is in flight, exactly while the call waits in
\* executeRequest or handles its result
OneInFlight ==
  /\ attempts - Len(hist) \in {0, 1}
  /\ attempts - Len(hist) = 1 <=> pc \in {"exec", "check"}
  /\ Len(sent) = attempts

\* an attempt starts only when every earlier attempt has produced its outcome
StartsAfterOutcome ==
  attempts' # attempts
    => /\ attempts = Len(hist)
       /\ attempts' = attempts + 1
       /\ Len(hist') = Len(hist)

\* C20: the attempts of a call are strictly sequential.  At no time are two
\* attempts of the call in flight, and attempt i+1 starts only after attempt i
\* has produced its outcome.
C20_AttemptsSequential == []OneInFlight /\ [][StartsAfterOutcome]_vars

C20_Witness ==
  /\ pc = "exec" /\ attempts = 3 /\ Len(hist) = 2
  /\ hist[1].got = "503" /\ hist[2].got = "error"

\* C22: a call only reads the client configuration.  No step of a call writes
\* BaseURL, APIKey, UserAgent, MaxRetries, RetryWaitMin, RetryWaitMax or
\* DebugLogging, so whatever the outcome the client has after the call the
\* values it had before it.
C22_ConfigReadOnly == [][c' = c]_vars

C22_Witness ==
  /\ out.returned /\ IsExhausted(ret) /\ nWaits = 2 /\ attempts = 3
  /\ c = [NewClient(2, 2, 5) EXCEPT !.UserAgent = ""]

\* the backoff wait pending in the select is the one computed for the index
\* of the attempt it precedes; with RetryWaitMin = 10ms and RetryWaitMax = 50ms
\* it lies in [7.5ms, 12.5ms] before the 2nd and in [15ms, 25ms] before the
\* 3rd attempt
PendingWaitInRange ==
  pc \in {"select", "parked"}
  => /\ attempt >= 1
     /\ nWaits = attempt
     /\ attempts = attempt
     /\ \E k \in secureRandomFloat : wait = calculateBackoff(c, attempt, k)
     /\ (c.RetryWaitMin = 10000000 /\ c.RetryWaitMax = 50000000)
        => /\ attempt = 1 => wait \in 7500000..12500000
           /\ attempt = 2 => wait \in 15000000..25000000

\* an attempt starts either as attempt 0, which no wait precedes, or from the
\* timer case of the select of its own backoff wait
StartsAfterWait ==
  /\ attempts' # attempts
     => \/ attempt = 0 /\ attempts = 0 /\ nWaits = 0 /\ pc = "loop"
        \/ attempt >= 1 /\ pc = "call" /\ nWaits = attempt
  /\ (pc' = "call" /\ pc # "call")
     => /\ pc \in {"select", "parked"}
        /\ "timer" \in SelectCases(pc = "parked", ctxErr)
  /\ (nWaits' # nWaits) => (attempt >= 1 /\ nWaits' = attempt)

Max(a, b) == IF a > b THEN a ELSE b

\* C26 as stated: every call eventually returns, and it returns after at most
\* MaxRetries + 1 attempts and at most MaxRetries backoff waits, whether or
\* not its context is ever cancelled.
C26_TerminatesWithinBudget ==
  /\ <>(pc = "done")
  /\ [](pc = "done" => (attempts <= c.MaxRetries + 1 /\ nWaits <= c.MaxRetries))

\* C26 as amended: every call eventually returns, after at most
\* MaxRetries + 1 attempts and at most MaxRetries backoff waits when
\* MaxRetries >= 0, and after no attempt and no wait when MaxRetries < 0.
C26_TerminatesWithinBudgetOrEmpty ==
  /\ <>(pc = "done")
  /\ [](/\ attempts <= c.MaxRetries + 1
        /\ nWaits <= Max(c.MaxRetries, 0)
        /\ c.MaxRetries < 0 => (attempts = 0 /\ nWaits = 0))

C26_Witness ==
  /\ pc = "done" /\ c.MaxRetries = 2 /\ ctxErr = NoCtxErr
  /\ attempts = c.MaxRetries + 1 /\ nWaits = c.MaxRetries

\* C27: the retry-exhausted error is returned only when the budget was spent:
\* whenever a call returns it, exactly MaxRetries + 1 attempts were made, each
\* of them ended in a transient failure, and none ended in a success, a
\* terminal failure or a cancellation.
C27_ExhaustedOnlyWhenSpent ==
  (pc = "done" /\ IsExhausted(ret))
  => /\ attempts = c.MaxRetries + 1
     /\ Len(hist) = attempts
     /\ Len(sent) = attempts
     /\ \A i \in 1..Len(hist) : hist[i].got \in {"503", "error"}

C27_Witness ==
  /\ pc = "done" /\ IsExhausted(ret) /\ c.MaxRetries = 1
  /\ Len(hist) = 2 /\ hist[1].got = "error" /\ hist[2].got = "503"
  /\ ctxErr # NoCtxErr

\* C28: a success on the last allowed attempt is not misreported.  If the
\* attempts 0..MaxRetries-1 each ended in a transient failure and attempt
\* MaxRetries returned a 2xx, the call has returned that response without
\* error; if it returned a 4xx, the call has returned the terminal error of
\* that response; it never returns the retry-exhausted error.
C28_LastAttemptCounts ==
  (/\ c.MaxRetries >= 0
   /\ Len(hist) = c.MaxRetries + 1
   /\ \A i \in 1..c.MaxRetries : hist[i].got \in {"503", "error"}
   /\ hist[c.MaxRetries + 1].got \in {"2xx", "4xx"})
  => /\ pc = "done"
     /\ attempts = c.MaxRetries + 1
     /\ ~IsExhausted(ret)
     /\ hist[c.MaxRetries + 1].got = "2xx"
        => ret = [data |-> resp.respBody, err |-> NoErr]
     /\ hist[c.MaxRetries + 1].got = "4xx"
        => ret = [data |-> NilBytes, err |-> StatusError(resp.statusCode, resp.respBody)]

C28_Witness ==
  /\ c.MaxRetries = 2 /\ Len(hist) = 3 /\ pc = "done"
  /\ hist[1].got = "503" /\ hist[2].got = "503" /\ hist[3].got = "2xx"
  /\ ret = [data |-> "", err |-> NoErr] /\ resp.statusCode = 299

\* C29 as stated: a call started with an already-cancelled context returns
\* the context's error: it performs no backoff wait, invokes executeRequest at
\* most once, and never returns success, a terminal error or the
\* retry-exhausted error.
C29_PreCancelledReturnsCtxError ==
  (pc = "done" /\ cancelAt.pc = "before")
  => /\ ret = [data |-> NilBytes, err |-> CtxError(ctxErr)]
     /\ nWaits = 0
     /\ attempts <= 1
     /\ ~IsSuccess(ret) /\ ~IsTerminal(ret) /\ ~IsExhausted(ret)

\* C30 as stated: every retry-exhausted error wraps a recorded, non-nil
\* transient cause, for every configured MaxRetries; with MaxRetries < 0 no
\* attempt is made before the call returns.
C30_ExhaustedWrapsCause ==
  /\ (pc = "done" /\ IsExhausted(ret))
     => /\ ret.err.wrapped # <<NoErr>>
        /\ Len(hist) >= 1
        /\ ret.err.wrapped = <<lastErr>>
        /\ lastErr = TransientError(resp)
  /\ (pc = "done" /\ c.MaxRetries < 0) => attempts = 0

C23_SentinelMeansAbsent ==
  (rec.pc = "returned" /\ rec.reqErr = NoErr)
  => /\ Len(rec.passes) >= 1 /\ rec.passes[1] = "outer"
     /\ Len(rec.passes) > 1 => ~OuterFails(rec.respBody)
     /\ (~rec.record.isNil /\ rec.record.ConditionalDataRaw = emptyJSON)
        => rec.record.ConditionalData = NilMap
     /\ (~rec.record.isNil /\ rec.record.DataRaw = emptyJSON)
        => rec.record.Data = NilMap

\* what the loop did with an outcome the call observed, given the state of
\* the call's own context when it was handled
DidWith(e) == Classify(e.r, e.ctx)

TransientsOf(seen) == SelectSeq(seen, LAMBDA e : DidWith(e) = "transient")

\* the values a call's variables have when they are computed from the call's
\* own body, own observed outcomes and own context alone
OwnAttempt(id) == Len(TransientsOf(calls[id].seen))

OwnLastErr(id) ==
  LET t == TransientsOf(calls[id].seen)
  IN  IF t = <<>> THEN NoErr ELSE TransientError(t[Len(t)].r)

OwnJsonData(id) ==
  IF calls[id].pc = "marshal" \/ MarshalFails(calls[id].body) THEN NilBytes
  ELSE Marshal(calls[id].body)

OwnOutcome(id) ==
  LET k == calls[id]
      n == Len(k.seen)
      did == IF n = 0 THEN "transient" ELSE DidWith(k.seen[n])
  IN  IF MarshalFails(k.body) THEN [data |-> NilBytes, err |-> MarshalError]
      ELSE IF did = "success" THEN [data |-> k.seen[n].r.respBody, err |-> NoErr]
      ELSE IF did = "terminal"
        THEN [data |-> NilBytes,
              err |-> StatusError(k.seen[n].r.statusCode, k.seen[n].r.respBody)]
      ELSE IF did = "cancel" THEN [data |-> NilBytes, err |-> CtxError(k.seen[n].ctx)]
      ELSE IF OwnAttempt(id) > c.MaxRetries
        THEN [data |-> NilBytes, err |-> RetriesError(c.MaxRetries, OwnLastErr(id))]
      ELSE [data |-> NilBytes, err |-> CtxError(k.ctxErr)]

DependsOnOwnCallOnly ==
  \A id \in CallIds :
    /\ locals[id].attempt = OwnAttempt(id)
    /\ locals[id].lastErr = OwnLastErr(id)
    /\ locals[id].jsonData = OwnJsonData(id)
    /\ calls[id].pc = "done" => calls[id].ret = OwnOutcome(id)

\* a step of one call leaves the other call's variables as they were
OtherCallUntouched ==
  \A id \in CallIds :
    (calls'[id] # calls[id] \/ locals'[id] # locals[id])
    => \A other \in CallIds \ {id} :
         calls'[other] = calls[other] /\ locals'[other] = locals[other]

\* C21: for two calls running concurrently on one shared client, under every
\* interleaving, each call's attempt counter, recorded last error, serialized
\* body and final outcome are those determined by the call's own attempt
\* outcomes and its own context; no step of the other call (its failures,
\* retries or cancellation) changes them.
C21_CallsIndependent == []DependsOnOwnCallOnly /\ [][OtherCallUntouched]_vars

\* one call exhausts its retries while the other, interleaved with it, is
\* cancelled during its backoff wait
C21_Witness ==
  /\ c.MaxRetries = 1
  /\ calls[1].pc = "done" /\ IsExhausted(calls[1].ret) /\ Len(calls[1].seen) = 2
  /\ calls[1].ctxErr = NoCtxErr
  /\ calls[2].pc = "done" /\ IsCancelled(calls[2].ret) /\ Len(calls[2].seen) = 1
  /\ locals[1].attempt = 2 /\ locals[2].attempt = 1
  /\ locals[1].lastErr # locals[2].lastErr

====
